---- MODULE Spec2Model ----
(***************************************************************************)
(* Model of the LangChain RAG pipeline: the vector store wrapper           *)
(* (langchain_vectorstore.py), the generation client                       *)
(* (langchain_openai_client.py), the document processor                    *)
(* (langchain_document_processor.py) and the orchestrator                  *)
(* (advanced_langchain_rag.py).                                            *)
(*                                                                         *)
(* Text is modelled by TLA+ strings, so slicing, joining and trimming are  *)
(* computed on the characters.  The cross mark the program prints in front *)
(* of its messages is written "[X]".  Relevance scores are integers        *)
(* standing for the index's floating-point distances.                      *)
(***************************************************************************)
EXTENDS Integers, Sequences, FiniteSets, TLC

VARIABLES
    api_key,      \* os.getenv("OPENAI_API_KEY") of the process ("" when unset)
    exists,       \* os.path.exists(persist_directory)
    disk,         \* the chunks of the persisted collection (<<>> when absent)
    vectorstore,  \* LangChainVectorStore._vectorstore, the cached handle
    call,         \* the last call made: its name, arguments and the state it met
    ret,          \* what that call returned or raised, and the steps it made
    prev          \* summary of the call before it

vars == <<api_key, exists, disk, vectorstore, call, ret, prev>>

----------------------------------------------------------------------------
(* Bounds of the model *)

MaxK == 2       \* k is drawn from 1..MaxK
MaxStore == 4   \* chunks a collection holds at most

(* Program constants *)

PreviewLen == 200
chunk_size == 600

Separator == "\n\n---\n\n"
Ellipsis == "..."
NoDocsMarker == "[X] No relevant documents found"
ThresholdMarker == "[X] No documents meet the relevance threshold"
UnavailableMarker == "[X] OpenAI API not available"
FailureMarker == "[X] Error calling OpenAI API: "
NoDocumentsError == "ValueError: No documents provided"
NotInitializedError == "ValueError: No vector store available. Create one first."
ConfigError == "ValueError: OPENAI_API_KEY environment variable not set."
NoDirectoryError == "ValueError: Directory does not exist"
StaleIndexError == "Exception raised by the index whose directory was removed"

----------------------------------------------------------------------------
(* Strings *)

RECURSIVE Rep(_, _)
Rep(s, n) == IF n <= 0 THEN "" ELSE s \o Rep(s, n - 1)

Char(s, i) == SubSeq(s, i, i)

Whitespace == {" ", "\n", "\t", "\r"}

RECURSIVE LStrip(_)
LStrip(s) ==
    IF Len(s) > 0 /\ Char(s, 1) \in Whitespace
    THEN LStrip(SubSeq(s, 2, Len(s)))
    ELSE s

RECURSIVE RStrip(_)
RStrip(s) ==
    IF Len(s) > 0 /\ Char(s, Len(s)) \in Whitespace
    THEN RStrip(SubSeq(s, 1, Len(s) - 1))
    ELSE s

\* str.strip()
Strip(s) == LStrip(RStrip(s))

\* s[:n]
Prefix(s, n) == SubSeq(s, 1, IF Len(s) < n THEN Len(s) ELSE n)

StartsWith(s, p) == Len(s) >= Len(p) /\ SubSeq(s, 1, Len(p)) = p

\* len(s.split()): the number of whitespace-delimited words
WordCount(s) ==
    Cardinality({i \in 1..Len(s) :
        /\ Char(s, i) \notin Whitespace
        /\ (i = 1 \/ Char(s, i - 1) \in Whitespace)})

\* sep.join(texts)
RECURSIVE Join(_, _)
Join(texts, sep) ==
    IF texts = <<>> THEN ""
    ELSE IF Len(texts) = 1 THEN texts[1]
    ELSE texts[1] \o sep \o Join(Tail(texts), sep)

----------------------------------------------------------------------------
(* The page texts the data directory can hold *)

Digits == "0123456789"
TShort == "alpha beta"
TExact == Rep(Digits, PreviewLen \div Len(Digits))
TOver == TExact \o "Z"
TLong == TExact \o "the tail of a long page"

Page(src, no, text) ==
    [page_content |-> text, metadata |-> [source |-> src, page |-> no]]

\* What PyPDFDirectoryLoader finds: one Document per page, in directory order
EmptyDir == <<>>
BlankDir == <<Page("a.pdf", 0, "")>>
OneDocDir == <<Page("a.pdf", 0, TShort), Page("a.pdf", 1, TOver)>>
TwoDocDir == <<Page("a.pdf", 0, TShort), Page("a.pdf", 1, TOver),
               Page("b.pdf", 0, TExact)>>
DataDirs == {EmptyDir, BlankDir, OneDocDir, TwoDocDir}

Queries == {"q1", "q2"}
Ks == 1..MaxK
Thresholds == {0, 1, 4}

----------------------------------------------------------------------------
(* Document processor: langchain_document_processor.py *)

chunk_overlap == 100

\* RecursiveCharacterTextSplitter.split_text for one page: a page that fits in
\* chunk_size comes back whole (trimmed; nothing for a blank page); a longer
\* page without separators is cut every chunk_size - chunk_overlap characters.
RECURSIVE split_text(_)
split_text(text) ==
    IF Strip(text) = "" THEN <<>>
    ELSE IF Len(text) <= chunk_size THEN <<Strip(text)>>
    ELSE <<SubSeq(text, 1, chunk_size)>>
         \o split_text(SubSeq(text, chunk_size - chunk_overlap + 1, Len(text)))

\* text_splitter.split_documents: every piece keeps its page's metadata
RECURSIVE SplitPages(_)
SplitPages(documents) ==
    IF documents = <<>> THEN <<>>
    ELSE LET d == documents[1]
             pieces == split_text(d.page_content)
         IN [i \in 1..Len(pieces) |->
                [page_content |-> pieces[i], metadata |-> d.metadata]]
            \o SplitPages(Tail(documents))

\* Faulty variant of split_documents: enumerate from 1
split_documents_OneBased(documents) ==
    LET chunks == SplitPages(documents)
    IN [i \in 1..Len(chunks) |->
          [page_content |-> chunks[i].page_content,
           metadata |->
              [source |-> chunks[i].metadata.source,
               page |-> chunks[i].metadata.page,
               chunk_index |-> i,
               chunk_length |-> Len(chunks[i].page_content),
               word_count |-> WordCount(chunks[i].page_content)]]]

\* split_documents: enumerate(chunks) and metadata.update(...)
split_documents(documents) ==
    LET chunks == SplitPages(documents)
    IN [i \in 1..Len(chunks) |->
          [page_content |-> chunks[i].page_content,
           metadata |->
              [source |-> chunks[i].metadata.source,
               page |-> chunks[i].metadata.page,
               chunk_index |-> i - 1,
               chunk_length |-> Len(chunks[i].page_content),
               word_count |-> WordCount(chunks[i].page_content)]]]

\* load_documents: raises when the directory does not exist
load_documents(dir) ==
    IF ~dir.present
    THEN [raised |-> TRUE, error |-> NoDirectoryError]
    ELSE [raised |-> FALSE, out |-> dir.pages]

process_documents(dir) ==
    LET documents == load_documents(dir)
    IN IF documents.raised THEN documents
       ELSE [raised |-> FALSE, out |-> split_documents(documents.out)]

\* The states the data directory can be in when populate reads it
DataStates ==
    {[present |-> FALSE, pages |-> <<>>]}
    \cup {[present |-> TRUE, pages |-> p] : p \in DataDirs}

\* Chunk lists a caller hands to create and add directly
ExtraChunks == split_documents(<<Page("c.pdf", 0, TLong)>>)
ChunkLists == {<<>>, ExtraChunks}

----------------------------------------------------------------------------
(* The index: what Chroma answers *)

\* The distance the index reports between a query and a chunk's text
Dist(q, text) ==
    IF q = "q1"
    THEN CASE text = TShort -> 0
           [] text = TExact -> -1
           [] text = TOver -> 2
           [] text = TLong -> 1
           [] OTHER -> 3
    ELSE CASE text = TShort -> 3
           [] text = TExact -> 1
           [] text = TOver -> 1
           [] text = TLong -> 2
           [] OTHER -> 0

\* i comes before j in the ranking: nearer first, insertion order on ties
Before(docs, q, i, j) ==
    LET di == Dist(q, docs[i].page_content)
        dj == Dist(q, docs[j].page_content)
    IN di < dj \/ (di = dj /\ i < j)

\* The position in docs of the chunk ranked r-th for q
RankedAt(docs, q, r) ==
    CHOOSE i \in 1..Len(docs) :
        Cardinality({j \in 1..Len(docs) : Before(docs, q, j, i)}) = r - 1

Min(a, b) == IF a < b THEN a ELSE b

\* Chroma.similarity_search_with_score: the k nearest, most similar first
IndexSearchWithScore(docs, q, k) ==
    [r \in 1..Min(k, Len(docs)) |->
        LET d == docs[RankedAt(docs, q, r)]
        IN <<d, Dist(q, d.page_content)>>]

\* Faulty variant of IndexSearch: the first k chunks in insertion order
IndexSearch_Unranked(docs, q, k) ==
    [r \in 1..Min(k, Len(docs)) |-> docs[r]]

\* Chroma.similarity_search: the same ranking without the scores
IndexSearch(docs, q, k) ==
    LET scored == IndexSearchWithScore(docs, q, k)
    IN [r \in 1..Len(scored) |-> scored[r][1]]

----------------------------------------------------------------------------
(* Vector store: langchain_vectorstore.py.  A store state st is            *)
(* [exists, disk, vectorstore]; every operation gives the state it leaves  *)
(* and what it returned or raised.                                         *)

None == [open |-> FALSE]
Chroma(docs) == [open |-> TRUE, docs |-> docs]

\* The cached handle outlived the directory it was opened on
Stale(st) == st.vectorstore # None /\ ~st.exists

\* clear_database: rmtree of the directory; the cached handle is not touched
clear_database(st) ==
    IF st.exists
    THEN [st EXCEPT !.exists = FALSE, !.disk = <<>>]
    ELSE st

\* create_vectorstore: Chroma.from_documents writes the chunks into the
\* collection at persist_directory (adding to what the collection holds)
create_vectorstore(st, documents) ==
    IF documents = <<>>
    THEN [st |-> st, raised |-> TRUE, error |-> NoDocumentsError]
    ELSE LET written == st.disk \o documents
         IN [st |-> [exists |-> TRUE, disk |-> written,
                     vectorstore |-> Chroma(written)],
             raised |-> FALSE]

\* get_vectorstore: None when the directory is missing or cannot be opened
get_vectorstore(st, openOK) ==
    IF ~st.exists THEN [st |-> st, out |-> None]
    ELSE IF openOK
         THEN [st |-> [st EXCEPT !.vectorstore = Chroma(st.disk)],
               out |-> Chroma(st.disk)]
         ELSE [st |-> st, out |-> None]

\* if self._vectorstore is None: self._vectorstore = self.get_vectorstore()
LazyOpen(st, openOK) ==
    IF st.vectorstore = None
    THEN LET g == get_vectorstore(st, openOK)
         IN [g.st EXCEPT !.vectorstore = g.out]
    ELSE st

\* add_documents.  On a handle whose directory was removed the index either
\* raises or takes the chunks into the data only the handle still reaches.
add_documents(st, documents, env) ==
    LET s1 == LazyOpen(st, env.openOK)
    IN IF s1.vectorstore = None
       THEN [st |-> s1, raised |-> TRUE, error |-> NotInitializedError]
       ELSE IF Stale(s1)
       THEN IF env.staleOK
            THEN [st |-> [s1 EXCEPT !.vectorstore =
                            Chroma(s1.vectorstore.docs \o documents)],
                  raised |-> FALSE]
            ELSE [st |-> s1, raised |-> TRUE, error |-> StaleIndexError]
       ELSE LET written == s1.disk \o documents
            IN [st |-> [s1 EXCEPT !.disk = written,
                                  !.vectorstore = Chroma(written)],
                raised |-> FALSE]

\* similarity_search_with_score.  consulted tells whether the index was asked.
similarity_search_with_score(st, q, k, env) ==
    LET s1 == LazyOpen(st, env.openOK)
    IN IF s1.vectorstore = None
       THEN [st |-> s1, raised |-> FALSE, out |-> <<>>, consulted |-> FALSE]
       ELSE IF Stale(s1) /\ ~env.staleOK
       THEN [st |-> s1, raised |-> TRUE, error |-> StaleIndexError,
             consulted |-> TRUE]
       ELSE [st |-> s1, raised |-> FALSE,
             out |-> IndexSearchWithScore(s1.vectorstore.docs, q, k),
             consulted |-> TRUE]

\* similarity_search
similarity_search(st, q, k, env) ==
    LET s1 == LazyOpen(st, env.openOK)
    IN IF s1.vectorstore = None
       THEN [st |-> s1, raised |-> FALSE, out |-> <<>>, consulted |-> FALSE]
       ELSE IF Stale(s1) /\ ~env.staleOK
       THEN [st |-> s1, raised |-> TRUE, error |-> StaleIndexError,
             consulted |-> TRUE]
       ELSE [st |-> s1, raised |-> FALSE,
             out |-> IndexSearch(s1.vectorstore.docs, q, k),
             consulted |-> TRUE]

----------------------------------------------------------------------------
(* Generation client: langchain_openai_client.py.  What the backend does   *)
(* with one request is an input: it answers with a text or it fails.       *)

Reply(text) == [ok |-> TRUE, content |-> text]
Failure(e) == [ok |-> FALSE, error |-> e]
Backend == {Reply("  The answer.\n"), Failure("Connection error.")}

\* get_openai_client: raises when OPENAI_API_KEY is unset or empty
get_openai_client(key) ==
    IF key = ""
    THEN [raised |-> TRUE, error |-> ConfigError]
    ELSE [raised |-> FALSE]

\* is_available: one test request; every exception becomes False
is_available(probe) == probe.ok

\* Faulty variant of generate: the failure text without the marker
generate_NoMarker(prompt, llm) ==
    IF llm.ok THEN Strip(llm.content) ELSE llm.error

\* generate: the trimmed reply, or the failure as marker-prefixed text
generate(prompt, llm) ==
    IF llm.ok THEN Strip(llm.content) ELSE FailureMarker \o llm.error

----------------------------------------------------------------------------
(* Orchestrator: advanced_langchain_rag.py *)

Return(v, steps) == [kind |-> "return", value |-> v, steps |-> steps]
Raise(e, steps) == [kind |-> "raise", error |-> e, steps |-> steps]

\* prompt_template.format(context=..., question=...)
Prompt(context_text, query_text) ==
    "Answer the question based on the context below.\n\nContext:\n"
    \o context_text \o "\n\nQuestion: " \o query_text \o "\n\nAnswer:"

\* "\n\n---\n\n".join([doc.page_content for doc in relevant_docs])
Context(relevant_docs) ==
    Join([i \in 1..Len(relevant_docs) |-> relevant_docs[i].page_content],
         Separator)

\* Faulty variant of Preview: a text of exactly PreviewLen characters is cut too
Preview_Inclusive(page_content) ==
    IF Len(page_content) >= PreviewLen
    THEN Prefix(page_content, PreviewLen) \o Ellipsis
    ELSE page_content

\* The content of a source record
Preview(page_content) ==
    IF Len(page_content) > PreviewLen
    THEN Prefix(page_content, PreviewLen) \o Ellipsis
    ELSE page_content

\* Faulty variant of FormatSources: enumerate from 0
FormatSources_ZeroBased(relevant_docs) ==
    [i \in 1..Len(relevant_docs) |->
        [index |-> i - 1,
         content |-> Preview(relevant_docs[i].page_content),
         metadata |-> relevant_docs[i].metadata]]

\* query: for i, doc in enumerate(relevant_docs, 1)
FormatSources(relevant_docs) ==
    [i \in 1..Len(relevant_docs) |->
        [index |-> i,
         content |-> Preview(relevant_docs[i].page_content),
         metadata |-> relevant_docs[i].metadata]]

\* query_with_scores: for i, (doc, score) in enumerate(filtered_results, 1)
FormatSourcesWithScores(filtered_results) ==
    [i \in 1..Len(filtered_results) |->
        [index |-> i,
         content |-> Preview(filtered_results[i][1].page_content),
         metadata |-> filtered_results[i][1].metadata,
         relevance_score |-> filtered_results[i][2]]]

\* Faulty variant of FilterByThreshold: score > score_threshold
RECURSIVE FilterByThreshold_Strict(_, _)
FilterByThreshold_Strict(results, score_threshold) ==
    IF results = <<>> THEN <<>>
    ELSE (IF results[1][2] > score_threshold THEN <<results[1]>> ELSE <<>>)
         \o FilterByThreshold_Strict(Tail(results), score_threshold)

\* [(doc, score) for doc, score in results if score >= score_threshold]
RECURSIVE FilterByThreshold(_, _)
FilterByThreshold(results, score_threshold) ==
    IF results = <<>> THEN <<>>
    ELSE (IF results[1][2] >= score_threshold THEN <<results[1]>> ELSE <<>>)
         \o FilterByThreshold(Tail(results), score_threshold)

\* Faulty variant of AnswerStage: generate without looking at the probe's answer
AnswerStage_NoProbeCheck(key, prompt, sources, context_text, env, steps) ==
    LET client == get_openai_client(key)
    IN IF client.raised
       THEN Raise(client.error, steps \o <<"client">>)
       ELSE Return([answer |-> generate(prompt, env.llm),
                    sources |-> sources,
                    context |-> context_text],
                   steps \o <<"client", "probe", "generate", "sources">>)
            @@ [available |-> is_available(env.probe), backend |-> env.llm]

\* The tail both queries share once the chunks are chosen: build the client,
\* probe it, generate, and shape the result.  steps are the steps made so far;
\* available records what the probe returned and backend what the backend did
\* with the generate request.
AnswerStage(key, prompt, sources, context_text, env, steps) ==
    LET client == get_openai_client(key)
    IN IF client.raised
       THEN Raise(client.error, steps \o <<"client">>)
       ELSE IF ~is_available(env.probe)
       THEN Return([answer |-> UnavailableMarker, sources |-> <<>>],
                   steps \o <<"client", "probe">>)
            @@ [available |-> is_available(env.probe)]
       ELSE Return([answer |-> generate(prompt, env.llm),
                    sources |-> sources,
                    context |-> context_text],
                   steps \o <<"client", "probe", "generate", "sources">>)
            @@ [available |-> is_available(env.probe), backend |-> env.llm]

query(st, key, query_text, k, env) ==
    LET found == similarity_search(st, query_text, k, env)
    IN IF found.raised
       THEN [st |-> found.st, ret |-> Raise(found.error, <<"search">>)]
       ELSE IF found.out = <<>>
       THEN [st |-> found.st,
             ret |-> Return([answer |-> NoDocsMarker, sources |-> <<>>],
                            <<"search">>)]
       ELSE LET relevant_docs == found.out
                context_text == Context(relevant_docs)
            IN [st |-> found.st,
                ret |-> AnswerStage(key, Prompt(context_text, query_text),
                                    FormatSources(relevant_docs), context_text,
                                    env, <<"search", "context">>)]

query_with_scores(st, key, query_text, k, score_threshold, env) ==
    LET found == similarity_search_with_score(st, query_text, k, env)
    IN IF found.raised
       THEN [st |-> found.st, ret |-> Raise(found.error, <<"search">>)]
       ELSE IF found.out = <<>>
       THEN [st |-> found.st,
             ret |-> Return([answer |-> NoDocsMarker, sources |-> <<>>],
                            <<"search">>)]
       ELSE LET filtered_results == FilterByThreshold(found.out, score_threshold)
            IN IF filtered_results = <<>>
               THEN [st |-> found.st,
                     ret |-> Return([answer |-> ThresholdMarker,
                                     sources |-> <<>>],
                                    <<"search", "filter">>)]
               ELSE LET relevant_docs ==
                            [i \in 1..Len(filtered_results) |->
                                filtered_results[i][1]]
                        context_text == Context(relevant_docs)
                    IN [st |-> found.st,
                        ret |-> AnswerStage(
                                  key, Prompt(context_text, query_text),
                                  FormatSourcesWithScores(filtered_results),
                                  context_text, env,
                                  <<"search", "filter", "context">>)]

\* Faulty variant of populate_database: no early return on zero chunks
populate_database_NoEmptyCheck(st, reset, dir) ==
    LET s1 == IF reset THEN clear_database(st) ELSE st
        first == IF reset THEN <<"clear">> ELSE <<>>
        documents == process_documents(dir)
    IN IF documents.raised
       THEN [st |-> s1, chunks |-> -1,
             ret |-> Raise(documents.error, first \o <<"process">>)]
       ELSE LET made == create_vectorstore(s1, documents.out)
            IN [st |-> made.st, chunks |-> Len(documents.out),
                ret |-> IF made.raised
                        THEN Raise(made.error, first \o <<"process", "create">>)
                        ELSE Return("None", first \o <<"process", "create">>)]

populate_database(st, reset, dir) ==
    LET s1 == IF reset THEN clear_database(st) ELSE st
        first == IF reset THEN <<"clear">> ELSE <<>>
        documents == process_documents(dir)
    IN IF documents.raised
       THEN [st |-> s1, chunks |-> -1,
             ret |-> Raise(documents.error, first \o <<"process">>)]
       ELSE IF documents.out = <<>>
       THEN [st |-> s1, chunks |-> 0,
             ret |-> Return("None", first \o <<"process">>)]
       ELSE LET made == create_vectorstore(s1, documents.out)
            IN [st |-> made.st, chunks |-> Len(documents.out),
                ret |-> IF made.raised
                        THEN Raise(made.error, first \o <<"process", "create">>)
                        ELSE Return("None", first \o <<"process", "create">>)]

----------------------------------------------------------------------------
(* The state machine: one action per call.  Spec is the orchestrator      *)
(* (populate, query, query_with_scores on one AdvancedLangChainRAG);       *)
(* SpecStore is the store's own interface (clear, create, add, search and  *)
(* search with score on one LangChainVectorStore).                         *)

St == [exists |-> exists, disk |-> disk, vectorstore |-> vectorstore]

\* What the call finds: is the directory there, is a handle cached
Pre == [exists |-> exists, cached |-> vectorstore # None]

SetStore(s) ==
    /\ Len(s.disk) <= MaxStore
    /\ (s.vectorstore # None => Len(s.vectorstore.docs) <= MaxStore)
    /\ exists' = s.exists
    /\ disk' = s.disk
    /\ vectorstore' = s.vectorstore

\* What the next call needs to know of this one
Summary ==
    IF call.op = "populate_database"
    THEN [op |-> "populate_database",
          empty |-> ret.kind = "return" /\ ret.chunks = 0]
    ELSE [op |-> "other", empty |-> FALSE]

\* The environment of one call.  An outcome is drawn only for what the call
\* meets: opening the directory is tried only when no handle is cached and
\* the directory exists, and the index misbehaves only on a stale handle.
OpenOutcomes(st) ==
    IF st.vectorstore = None /\ st.exists THEN BOOLEAN ELSE {TRUE}
StaleOutcomes(st) == IF Stale(st) THEN BOOLEAN ELSE {TRUE}
StoreEnvs(st) ==
    {[openOK |-> o, staleOK |-> s] : o \in OpenOutcomes(st),
                                      s \in StaleOutcomes(st)}
Probes == {Reply("Hello!"), Failure("Connection error.")}
BackendAfter(probe) == IF probe.ok THEN Backend ELSE {Failure("Connection error.")}
QueryEnvs(st) ==
    UNION {{[openOK |-> e.openOK, staleOK |-> e.staleOK, probe |-> p, llm |-> l] :
                l \in BackendAfter(p)} : e \in StoreEnvs(st), p \in Probes}

\* A process starts with no handle; the directory may be left by an earlier run
Init ==
    /\ api_key \in {"", "sk-key"}
    /\ \E d \in {<<>>, split_documents(OneDocDir)} :
          /\ disk = d
          /\ exists \in (IF d = <<>> THEN BOOLEAN ELSE {TRUE})
    /\ vectorstore = None
    /\ call = [op |-> "init"]
    /\ ret = [kind |-> "none"]
    /\ prev = [op |-> "none", empty |-> FALSE]

ClearDatabase ==
    /\ SetStore(clear_database(St))
    /\ call' = [op |-> "clear_database", pre |-> Pre]
    /\ ret' = Return("None", <<>>)
    /\ prev' = Summary
    /\ UNCHANGED api_key

CreateVectorstore ==
    \E documents \in ChunkLists :
        LET r == create_vectorstore(St, documents)
        IN /\ SetStore(r.st)
           /\ call' = [op |-> "create_vectorstore", pre |-> Pre,
                       documents |-> documents]
           /\ ret' = IF r.raised THEN Raise(r.error, <<>>)
                     ELSE Return("Chroma", <<>>)
           /\ prev' = Summary
           /\ UNCHANGED api_key

AddDocuments ==
    \E documents \in ChunkLists \ {<<>>}, env \in StoreEnvs(St) :
        LET r == add_documents(St, documents, env)
        IN /\ SetStore(r.st)
           /\ call' = [op |-> "add_documents", pre |-> Pre,
                       documents |-> documents, before |-> St,
                       openOK |-> env.openOK]
           /\ ret' = IF r.raised THEN Raise(r.error, <<>>)
                     ELSE Return("None", <<>>)
           /\ prev' = Summary
           /\ UNCHANGED api_key

SimilaritySearch ==
    \E q \in Queries, k \in Ks, env \in StoreEnvs(St) :
        LET r == similarity_search(St, q, k, env)
        IN /\ SetStore(r.st)
           /\ call' = [op |-> "similarity_search", pre |-> Pre,
                       query |-> q, k |-> k]
           /\ ret' = (IF r.raised THEN Raise(r.error, <<>>)
                      ELSE Return(r.out, <<>>))
                     @@ [consulted |-> r.consulted]
           /\ prev' = Summary
           /\ UNCHANGED api_key

SimilaritySearchWithScore ==
    \E q \in Queries, k \in Ks, env \in StoreEnvs(St) :
        LET r == similarity_search_with_score(St, q, k, env)
        IN /\ SetStore(r.st)
           /\ call' = [op |-> "similarity_search_with_score", pre |-> Pre,
                       query |-> q, k |-> k]
           /\ ret' = (IF r.raised THEN Raise(r.error, <<>>)
                      ELSE Return(r.out, <<>>))
                     @@ [consulted |-> r.consulted]
           /\ prev' = Summary
           /\ UNCHANGED api_key

PopulateDatabase ==
    \E reset \in BOOLEAN, dir \in DataStates :
        LET r == populate_database(St, reset, dir)
        IN /\ SetStore(r.st)
           /\ call' = [op |-> "populate_database", pre |-> Pre,
                       reset |-> reset, before |-> St]
           /\ ret' = r.ret @@ [chunks |-> r.chunks]
           /\ prev' = Summary
           /\ UNCHANGED api_key

Query ==
    \E q \in Queries, k \in Ks, env \in QueryEnvs(St) :
        LET r == query(St, api_key, q, k, env)
            found == similarity_search(St, q, k, env)
        IN /\ SetStore(r.st)
           /\ call' = [op |-> "query", pre |-> Pre, query |-> q, k |-> k,
                       found |-> IF found.raised THEN <<>> ELSE found.out]
           /\ ret' = r.ret
           /\ prev' = Summary
           /\ UNCHANGED api_key

QueryWithScores ==
    \E q \in Queries, k \in Ks, th \in Thresholds, env \in QueryEnvs(St) :
        LET r == query_with_scores(St, api_key, q, k, th, env)
            found == similarity_search_with_score(St, q, k, env)
        IN /\ SetStore(r.st)
           /\ call' = [op |-> "query_with_scores", pre |-> Pre, query |-> q,
                       k |-> k, score_threshold |-> th,
                       found |-> IF found.raised THEN <<>> ELSE found.out]
           /\ ret' = r.ret
           /\ prev' = Summary
           /\ UNCHANGED api_key

Next ==
    \/ PopulateDatabase
    \/ Query
    \/ QueryWithScores

Spec == Init /\ [][Next]_vars

NextStore ==
    \/ ClearDatabase
    \/ CreateVectorstore
    \/ AddDocuments
    \/ SimilaritySearch
    \/ SimilaritySearchWithScore

SpecStore == Init /\ [][NextStore]_vars

----------------------------------------------------------------------------
(* Vocabulary of the properties *)

IsQuery == call.op \in {"query", "query_with_scores"}
IsSearch == call.op \in {"similarity_search", "similarity_search_with_score"}

Has(step) == \E i \in 1..Len(ret.steps) : ret.steps[i] = step
Times(step) == Cardinality({i \in 1..Len(ret.steps) : ret.steps[i] = step})

\* The chunks that survive the search (and, with scores, the threshold), in
\* retrieval order, computed from what the search returned
AboveThreshold(pair) == pair[2] >= call.score_threshold
SurvivingPairs == SelectSeq(call.found, AboveThreshold)
SurvivingDocs ==
    IF call.op = "query" THEN call.found
    ELSE [i \in 1..Len(SurvivingPairs) |-> SurvivingPairs[i][1]]

Answered == IsQuery /\ ret.kind = "return" /\ Has("generate")

\* The order the steps of a query are made in
StepOrder ==
    <<"search", "filter", "context", "client", "probe", "generate", "sources">>
StepNo(step) == CHOOSE n \in 1..Len(StepOrder) : StepOrder[n] = step
InOrder ==
    \A i \in 1..(Len(ret.steps) - 1) :
        StepNo(ret.steps[i]) < StepNo(ret.steps[i + 1])

OutcomeContextEmpty ==
    /\ ret.kind = "return"
    /\ ret.value.answer \in {NoDocsMarker, ThresholdMarker}
    /\ ret.value.sources = <<>>
    /\ "context" \notin DOMAIN ret.value
    /\ ~Has("probe") /\ ~Has("generate")

OutcomeClientUnavailable ==
    /\ ret.kind = "return"
    /\ ret.value.answer = UnavailableMarker
    /\ ret.value.sources = <<>>
    /\ "context" \notin DOMAIN ret.value
    /\ Has("probe") /\ ~Has("generate")

OutcomeAnswered ==
    /\ ret.kind = "return"
    /\ Has("generate")
    /\ ret.value.sources # <<>>
    /\ "context" \in DOMAIN ret.value

\* The call raised: the configuration error out of the client's construction,
\* after the context was built and before any probe, or the error of an index
\* whose directory was removed under the cached handle, out of the search
OutcomeRaised ==
    /\ ret.kind = "raise"
    /\ \/ /\ ret.error = ConfigError
          /\ api_key = ""
          /\ Has("context") /\ ~Has("probe") /\ ~Has("generate")
       \/ /\ ret.error = StaleIndexError
          /\ call.pre.cached /\ ~call.pre.exists
          /\ ret.steps = <<"search">>

Count(b) == IF b THEN 1 ELSE 0

StepDiscipline ==
    /\ Len(ret.steps) >= 1 /\ ret.steps[1] = "search"
    /\ InOrder
    /\ Has("probe") => SurvivingDocs # <<>>
    /\ Times("generate") <= 1
    /\ Has("generate") => Has("probe") /\ ret.available

----------------------------------------------------------------------------
(* C1 *)

\* C1 (as claimed): a search or a search with score called while the persisted
\* directory does not exist returns the empty sequence, raises nothing and
\* does not consult the index.
C1_SearchEmptyWhenDirectoryAbsent ==
    (IsSearch /\ ~call.pre.exists) =>
        /\ ret.kind = "return"
        /\ ret.value = <<>>
        /\ ~ret.consulted

----------------------------------------------------------------------------
(* C2 *)

\* C2 (as claimed): every query or query_with_scores makes its steps in the
\* order search, context, probe, generate; probes only when a chunk survived;
\* generates at most once and only after the probe returned true; and ends in
\* exactly one of ContextEmpty, ClientUnavailable, Answered.
C2_ThreeOutcomes ==
    IsQuery =>
        /\ StepDiscipline
        /\ Count(OutcomeContextEmpty) + Count(OutcomeClientUnavailable)
             + Count(OutcomeAnswered) = 1

\* C2 (amended): the same step discipline, and the call ends in exactly one of
\* ContextEmpty, ClientUnavailable, Answered or a raised error (the
\* configuration error after context building and before the probe, or the
\* error of the search on an index whose directory was removed).
C2_StepsAndFourOutcomes ==
    IsQuery =>
        /\ StepDiscipline
        /\ Count(OutcomeContextEmpty) + Count(OutcomeClientUnavailable)
             + Count(OutcomeAnswered) + Count(OutcomeRaised) = 1

C2_Witness ==
    /\ call.op = "query_with_scores"
    /\ OutcomeAnswered
    /\ ret.steps = <<"search", "filter", "context", "client", "probe",
                     "generate", "sources">>

----------------------------------------------------------------------------
(* C3 *)

AfterEmptyPopulate == prev.op = "populate_database" /\ prev.empty

NoDocsResult == [answer |-> NoDocsMarker, sources |-> <<>>]

\* populate obtained zero chunks: it returned, made no create call and
\* created no store (the directory is there only if it was and no reset was
\* asked; the cached handle is the one it was)
EmptyPopulateCreatesNothing ==
    (call.op = "populate_database" /\ ret.chunks = 0) =>
        /\ ret.kind = "return"
        /\ ~Has("create")
        /\ exists = (call.before.exists /\ ~call.reset)
        /\ disk = (IF call.reset THEN <<>> ELSE call.before.disk)
        /\ vectorstore = call.before.vectorstore

----------------------------------------------------------------------------
(* C4 *)

\* C4: query_with_scores keeps exactly the pairs with score >= threshold, in
\* retrieval order; a non-empty search result with every pair below the
\* threshold gives the threshold marker with empty sources; and the "No
\* relevant documents found" marker is given only when the search returned
\* no pair.
C4_ThresholdFilter ==
    (call.op = "query_with_scores" /\ ret.kind = "return") =>
        /\ (ret.value.answer = NoDocsMarker) <=> (call.found = <<>>)
        /\ (call.found # <<>> /\ SurvivingPairs = <<>>) =>
              ret.value = [answer |-> ThresholdMarker, sources |-> <<>>]
        /\ Has("generate") =>
              /\ Len(ret.value.sources) = Len(SurvivingPairs)
              /\ \A i \in 1..Len(SurvivingPairs) :
                    /\ ret.value.sources[i].metadata = SurvivingPairs[i][1].metadata
                    /\ ret.value.sources[i].relevance_score = SurvivingPairs[i][2]

\* Some pairs were dropped and some kept
C4_Witness ==
    /\ call.op = "query_with_scores" /\ Answered
    /\ SurvivingPairs # <<>>
    /\ Len(SurvivingPairs) < Len(call.found)

----------------------------------------------------------------------------
(* C5 *)

WithoutScore(source) ==
    [index |-> source.index, content |-> source.content,
     metadata |-> source.metadata]

\* C5: in every store state, for every query text, k and environment, when
\* all scores of the search are >= 0, query_with_scores at threshold 0 gives
\* the same sources (count, chunks, order) as query.
C5_ThresholdZeroSameSources ==
    \A q \in Queries, k \in Ks, env \in QueryEnvs(St) :
        LET scored == similarity_search_with_score(St, q, k, env)
            plain == query(St, api_key, q, k, env).ret
            zero == query_with_scores(St, api_key, q, k, 0, env).ret
        IN (/\ ~scored.raised
            /\ \A i \in 1..Len(scored.out) : scored.out[i][2] >= 0) =>
              /\ plain.kind = zero.kind
              /\ plain.kind = "return" =>
                    plain.value.sources =
                        [i \in 1..Len(zero.value.sources) |->
                            WithoutScore(zero.value.sources[i])]

C5_Witness ==
    /\ call.op = "query_with_scores" /\ call.score_threshold = 0 /\ Answered
    /\ Len(call.found) >= 2
    /\ \A i \in 1..Len(call.found) : call.found[i][2] >= 0
    /\ Len(ret.value.sources) = Len(call.found)

----------------------------------------------------------------------------
(* C6 *)

EndsWith(s, p) == Len(s) >= Len(p) /\ SubSeq(s, Len(s) - Len(p) + 1, Len(s)) = p

\* C6 (as claimed): every source's content is at most 200 characters: a chunk
\* text longer than 200 characters is cut and ends in the ellipsis, a text of
\* 200 characters or fewer is passed through.
C6_PreviewAtMost200 ==
    (IsQuery /\ ret.kind = "return") =>
        \A i \in 1..Len(ret.value.sources) :
            LET text == SurvivingDocs[i].page_content
                content == ret.value.sources[i].content
            IN /\ Len(content) <= PreviewLen
               /\ Len(text) > PreviewLen => EndsWith(content, Ellipsis)
               /\ Len(text) <= PreviewLen => content = text

\* C6 (amended): every source's content is at most 203 characters: a chunk
\* text longer than 200 characters becomes its first 200 characters followed
\* by the three-character ellipsis, a text of 200 characters or fewer is
\* passed through.
C6_PreviewAtMost203 ==
    (IsQuery /\ ret.kind = "return") =>
        \A i \in 1..Len(ret.value.sources) :
            LET text == SurvivingDocs[i].page_content
                content == ret.value.sources[i].content
            IN /\ Len(content) <= PreviewLen + Len(Ellipsis)
               /\ Len(text) > PreviewLen =>
                     content = SubSeq(text, 1, PreviewLen) \o Ellipsis
               /\ Len(text) <= PreviewLen => content = text

\* An answer with a source cut from a longer text and a source whose text of
\* exactly 200 characters was passed through
C6_Witness ==
    /\ Answered
    /\ \E i \in 1..Len(ret.value.sources) :
          /\ Len(SurvivingDocs[i].page_content) > PreviewLen
          /\ Len(ret.value.sources[i].content) = PreviewLen + Len(Ellipsis)
    /\ \E i \in 1..Len(ret.value.sources) :
          /\ Len(SurvivingDocs[i].page_content) = PreviewLen
          /\ ret.value.sources[i].content = SurvivingDocs[i].page_content

----------------------------------------------------------------------------
(* C7 *)

SurvivingTexts ==
    [i \in 1..Len(SurvivingDocs) |-> SurvivingDocs[i].page_content]

\* C7: in every Answered result the sources are one per surviving chunk, in
\* retrieval order, numbered 1..n with the chunk's metadata unchanged; the
\* context is the surviving texts joined in that order by the separator; the
\* i-th source's content is the preview of the i-th text; and n <= k.
C7_SourcesMirrorContext ==
    Answered =>
        LET sources == ret.value.sources
            n == Len(sources)
        IN /\ n = Len(SurvivingDocs)
           /\ n <= call.k
           /\ \A i \in 1..n :
                 /\ sources[i].index = i
                 /\ sources[i].metadata = SurvivingDocs[i].metadata
                 /\ sources[i].content =
                        (IF Len(SurvivingTexts[i]) > PreviewLen
                         THEN SubSeq(SurvivingTexts[i], 1, PreviewLen) \o Ellipsis
                         ELSE SurvivingTexts[i])
           /\ ret.value.context = Join(SurvivingTexts, Separator)

\* An answer built from two chunks that the ranking put in another order than
\* the store holds them
C7_Witness ==
    /\ Answered
    /\ Len(ret.value.sources) = 2
    /\ ret.value.sources[1].metadata.chunk_index
          > ret.value.sources[2].metadata.chunk_index
    /\ ret.value.context =
          SurvivingTexts[1] \o Separator \o SurvivingTexts[2]

----------------------------------------------------------------------------
(* C8 *)

AnsweredSteps ==
    IF call.op = "query"
    THEN <<"search", "context", "client", "probe", "generate", "sources">>
    ELSE <<"search", "filter", "context", "client", "probe", "generate",
           "sources">>

\* C8: generate never raises, so a query whose probe succeeded always returns;
\* when the backend fails the generate request, the answer is the failure
\* marker followed by the error, returned with the full sources and context
\* after the same steps as a successful generation (generate called once).
C8_SoftFailIsTheAnswer ==
    /\ (IsQuery /\ Has("probe") /\ ret.available) => Answered
    /\ (Answered /\ ~ret.backend.ok) =>
          /\ ret.value.answer = FailureMarker \o ret.backend.error
          /\ StartsWith(ret.value.answer, FailureMarker)
          /\ Len(ret.value.sources) = Len(SurvivingDocs)
          /\ ret.value.sources # <<>>
          /\ ret.value.context = Join(SurvivingTexts, Separator)
          /\ ret.steps = AnsweredSteps

C8_Witness ==
    /\ Answered /\ ret.available /\ ~ret.backend.ok
    /\ StartsWith(ret.value.answer, FailureMarker)
    /\ Len(ret.value.sources) >= 2

----------------------------------------------------------------------------
(* C9 *)

\* C9 (as claimed): with no API credential configured, query and
\* query_with_scores raise the configuration error before any vector search,
\* whatever the store holds.
C9_ConfigErrorBeforeSearch ==
    (IsQuery /\ api_key = "") =>
        /\ ret.kind = "raise"
        /\ ret.error = ConfigError
        /\ ~Has("search")

----------------------------------------------------------------------------
(* C10 *)

\* The directory is there but cannot be opened as a store
Unopenable == call.pre.exists /\ ~call.pre.cached /\ ~call.openOK

\* C10 (as claimed): add called while no persisted store exists raises the
\* not-initialized error and leaves the persisted store and the cached handle
\* as they were; otherwise it appends the chunks to the existing store.
C10_AddNeedsPersistedStore ==
    call.op = "add_documents" =>
        IF ~call.pre.exists \/ Unopenable
        THEN /\ ret.kind = "raise"
             /\ ret.error = NotInitializedError
             /\ St = call.before
        ELSE /\ ret.kind = "return"
             /\ exists
             /\ disk = call.before.disk \o call.documents

----------------------------------------------------------------------------
(* The document processor on its own: SpecProcess applies                  *)
(* process_documents to data directories of up to two PDFs.                *)

MaxPages == 2   \* pages a PDF holds at most

\* A page longer than chunk_size, without any separator
TBig == TExact \o TExact \o TExact \o TExact \o TExact \o TExact \o "end"

PageTexts == {"", TShort, TBig}

\* The page lists one PDF can give
FilePages(src) ==
    UNION {{[i \in 1..n |-> Page(src, i - 1, t[i])] : t \in [1..n -> PageTexts]} :
             n \in 0..MaxPages}

\* The loader reads the files one after the other
ProcessDirs ==
    {[present |-> FALSE, pages |-> <<>>]}
    \cup {[present |-> TRUE, pages |-> a \o b] :
             a \in FilePages("a.pdf"), b \in FilePages("b.pdf")}

\* The processor keeps no state: a run starts from a data directory
InitProcess ==
    /\ api_key = ""
    /\ exists = FALSE
    /\ disk = <<>>
    /\ vectorstore = None
    /\ \E dir \in ProcessDirs : call = [op |-> "directory", dir |-> dir]
    /\ ret = [kind |-> "none"]
    /\ prev = [op |-> "none", empty |-> FALSE]

ProcessDocuments ==
    /\ call.op = "directory"
    /\ LET r == process_documents(call.dir)
       IN /\ call' = [op |-> "process_documents", dir |-> call.dir]
          /\ ret' = IF r.raised THEN Raise(r.error, <<>>)
                    ELSE Return(r.out, <<>>)
    /\ UNCHANGED <<api_key, exists, disk, vectorstore, prev>>

NextProcess == ProcessDocuments

SpecProcess == InitProcess /\ [][NextProcess]_vars

----------------------------------------------------------------------------
(* C11 *)

Processed == call.op = "process_documents" /\ ret.kind = "return"

Sources == {ret.value[i].metadata.source : i \in 1..Len(ret.value)}

\* The positions, in chunk order, of the chunks of one source document
ChunksOf(src) == {i \in 1..Len(ret.value) : ret.value[i].metadata.source = src}

IncreasingWithin(src) ==
    \A i, j \in ChunksOf(src) :
        i < j => ret.value[i].metadata.chunk_index
                   < ret.value[j].metadata.chunk_index

\* C11 (as claimed): the chunk_index values of the chunks of one source
\* document are strictly increasing in chunk order and start at 0 for that
\* document.
C11_IndexPerDocumentFromZero ==
    Processed =>
        \A src \in Sources :
            /\ IncreasingWithin(src)
            /\ \E i \in ChunksOf(src) :
                  /\ \A j \in ChunksOf(src) : i <= j
                  /\ ret.value[i].metadata.chunk_index = 0

\* C11 (amended): the chunk_index of a chunk is its 0-based position in the
\* whole chunk sequence of the call, so the values of one source document are
\* strictly increasing in chunk order, and only the first document of the
\* call starts at 0: a later document starts at the number of chunks before
\* it.
C11_IndexIsPositionInCall ==
    Processed =>
        /\ \A i \in 1..Len(ret.value) : ret.value[i].metadata.chunk_index = i - 1
        /\ \A src \in Sources : IncreasingWithin(src)

\* Two documents of several chunks each; the second does not start at 0
C11_Witness ==
    /\ Processed
    /\ Cardinality(ChunksOf("a.pdf")) >= 2
    /\ Cardinality(ChunksOf("b.pdf")) >= 2
    /\ \A i \in ChunksOf("b.pdf") : ret.value[i].metadata.chunk_index > 0

----------------------------------------------------------------------------
(* C14 *)

\* C14: when populate is called on a data directory that does not exist, it
\* fails with an error before doing any other work: the persisted store and
\* the cached handle are the same after the failed call as before it,
\* whether or not reset was requested.
C14_MissingDirectoryLeavesStore ==
    (/\ call.op = "populate_database"
     /\ ret.kind = "raise"
     /\ ret.error = NoDirectoryError)
    => St = call.before

----------------------------------------------------------------------------
(* The command-line scripts: SpecScript runs populate_database.py and      *)
(* query_database.py, each in a process of its own, on one chroma          *)
(* directory.  What a script prints is a sequence of items; an item names  *)
(* the field of the result whose value it renders ("" for a heading, a     *)
(* bracket or a message).                                                  *)

Item(field, text) == [field |-> field, text |-> text]

\* The fields an output renders
Fields(out) == {out[i].field : i \in 1..Len(out)} \ {""}

\* The keys of a chunk's metadata, in the order they were set
MetadataKeys == <<"source", "page", "chunk_index", "chunk_length", "word_count">>

\* json.dumps of a dict: one entry per key the dict holds
RECURSIVE DumpKeys(_, _, _)
DumpKeys(path, dict, keys) ==
    IF keys = <<>> THEN <<>>
    ELSE (IF keys[1] \in DOMAIN dict
          THEN <<Item(path \o keys[1], dict[keys[1]])>> ELSE <<>>)
         \o DumpKeys(path, dict, Tail(keys))

\* json.dumps of one element of sources
DumpSource(source) ==
    DumpKeys("sources.", source, <<"index", "content">>)
    \o <<Item("", "metadata: {")>>
    \o DumpKeys("sources.metadata.", source.metadata, MetadataKeys)
    \o DumpKeys("sources.", source, <<"relevance_score">>)

RECURSIVE DumpSources(_)
DumpSources(sources) ==
    IF sources = <<>> THEN <<>>
    ELSE DumpSource(sources[1]) \o DumpSources(Tail(sources))

\* print(json.dumps(result, indent=2)): every key of the result, nested ones
\* included
json_dumps(result) ==
    DumpKeys("", result, <<"answer">>)
    \o <<Item("", "sources: [")>>
    \o DumpSources(result.sources)
    \o DumpKeys("", result, <<"context">>)

\* display_results, the lines of one source
DisplaySource(source, with_scores) ==
    <<Item("sources.index", source.index),
      Item("sources.content", source.content)>>
    \o (IF with_scores /\ "relevance_score" \in DOMAIN source
        THEN <<Item("sources.relevance_score", source.relevance_score)>>
        ELSE <<>>)
    \o (IF "source" \in DOMAIN source.metadata
        THEN <<Item("", "Source:"),
               Item("sources.metadata.source", source.metadata.source)>>
        ELSE <<>>)
    \o (IF "page" \in DOMAIN source.metadata
        THEN <<Item("", "Page:"),
               Item("sources.metadata.page", source.metadata.page)>>
        ELSE <<>>)

RECURSIVE DisplaySources(_, _)
DisplaySources(sources, with_scores) ==
    IF sources = <<>> THEN <<>>
    ELSE DisplaySource(sources[1], with_scores)
         \o DisplaySources(Tail(sources), with_scores)

\* display_results: the answer, then the sources if there are any
display_results(result, with_scores) ==
    <<Item("", "ANSWER:"), Item("answer", result.answer)>>
    \o (IF result.sources # <<>>
        THEN <<Item("", "SOURCES:")>>
             \o DisplaySources(result.sources, with_scores)
        ELSE <<>>)

Exit(code, stdout) == [kind |-> "exit", code |-> code, stdout |-> stdout]

\* A script's rag_system lives as long as its process: the handle it cached
\* goes with it, the chroma directory stays
EndProcess(st) == [st EXCEPT !.vectorstore = None]

\* populate_database.py main
PopulateMain ==
    \E reset \in BOOLEAN, dir \in DataStates :
        LET r == populate_database(St, reset, dir)
        IN /\ vectorstore = None
           /\ SetStore(EndProcess(r.st))
           /\ call' = [op |-> "populate_database.py", reset |-> reset]
           /\ ret' = IF r.ret.kind = "raise"
                     THEN Exit(1, <<Item("", "Error during database population: "
                                            \o r.ret.error)>>)
                     ELSE Exit(0, <<Item("", "Database population completed successfully!")>>)
           /\ UNCHANGED <<api_key, prev>>

\* query_database.py main
QueryMain ==
    \E q \in Queries, k \in Ks, with_scores \in BOOLEAN,
       json_output \in BOOLEAN, env \in QueryEnvs(St) :
      \E th \in (IF with_scores THEN Thresholds ELSE {0}) :
        LET r == IF with_scores
                 THEN query_with_scores(St, api_key, q, k, th, env)
                 ELSE query(St, api_key, q, k, env)
            result == r.ret.value
        IN /\ vectorstore = None
           /\ SetStore(EndProcess(r.st))
           /\ call' = [op |-> "query_database.py", query |-> q, k |-> k,
                       with_scores |-> with_scores,
                       score_threshold |-> th,
                       json_output |-> json_output,
                       outcome |-> r.ret]
           /\ ret' = IF r.ret.kind = "raise"
                     THEN Exit(1, <<Item("", "Error during query: "
                                            \o r.ret.error)>>)
                     ELSE IF json_output
                     THEN Exit(0, json_dumps(result))
                     ELSE Exit(0, display_results(result, with_scores))
           /\ UNCHANGED <<api_key, prev>>

NextScript == PopulateMain \/ QueryMain

SpecScript == Init /\ [][NextScript]_vars

----------------------------------------------------------------------------
(* C12 *)

\* The output the other mode gives for the result this run printed
OtherMode ==
    IF call.json_output
    THEN display_results(call.outcome.value, call.with_scores)
    ELSE json_dumps(call.outcome.value)

\* C12: for every result object the query script can obtain (ContextEmpty,
\* ClientUnavailable or Answered, with or without scores), the text output
\* and the JSON output represent the same set of fields: no field of the
\* result appears in one mode's output and is absent from the other's.
C12_TextAndJsonSameFields ==
    (/\ call.op = "query_database.py"
     /\ ret.code = 0)
    => Fields(ret.stdout) = Fields(OtherMode)

----------------------------------------------------------------------------
(* The interactive loop: SpecInteractive runs interactive_rag.py main on   *)
(* one AdvancedLangChainRAG.  call.at is where main stands:                *)
(*   "input"      blocked in input()                                       *)
(*   "read_reset" "reset" was read, populate_database(reset=True) is next  *)
(*   "cleared"    inside populate_database, after clear_database           *)
(*   "read_query" a question was read, rag_system.query is next            *)
(*   "done"       main has returned                                        *)
(* A keyboard interrupt can be delivered wherever main stands.             *)

DefaultK == 5

\* What the user can type at the prompt
Inputs == {"", "  ", "quit", "exit", " Q ", "reset", "RESET"} \cup Queries

\* str.lower(), on the letters the inputs use
LowerChar(c) ==
    CASE c = "Q" -> "q"
      [] c = "R" -> "r"
      [] c = "E" -> "e"
      [] c = "S" -> "s"
      [] c = "T" -> "t"
      [] OTHER -> c

RECURSIVE Lower(_)
Lower(s) ==
    IF s = "" THEN ""
    ELSE LowerChar(Char(s, 1)) \o Lower(SubSeq(s, 2, Len(s)))

At(at) == [op |-> "interactive", at |-> at]

InLoop == call.op = "interactive" /\ call.at # "done"

\* main up to the loop: return when the chroma directory is not there
Start ==
    /\ call.op = "init"
    /\ call' = IF ~exists
               THEN At("done") @@ [by |-> "no database", from |-> "start"]
               ELSE At("input")
    /\ UNCHANGED <<api_key, exists, disk, vectorstore, ret, prev>>

\* input(...).strip() and the dispatch on what was typed
ReadInput ==
    /\ call.op = "interactive" /\ call.at = "input"
    /\ \E typed \in Inputs :
          LET query_text == Strip(typed)
          IN call' = IF query_text = "" THEN At("input")
                     ELSE IF Lower(query_text) \in {"quit", "exit", "q"}
                     THEN At("done") @@ [by |-> "quit", from |-> "input"]
                     ELSE IF Lower(query_text) = "reset" THEN At("read_reset")
                     ELSE At("read_query") @@ [query |-> query_text]
    /\ UNCHANGED <<api_key, exists, disk, vectorstore, ret, prev>>

\* populate_database(reset=True), first statement: clear_database()
ResetClear ==
    /\ call.op = "interactive" /\ call.at = "read_reset"
    /\ SetStore(clear_database(St))
    /\ call' = At("cleared")
    /\ UNCHANGED <<api_key, ret, prev>>

\* populate_database(reset=True), the rest: process the documents and create
\* the store; an exception is printed and the loop goes on
ResetBuild ==
    /\ call.op = "interactive" /\ call.at = "cleared"
    /\ \E dir \in DataStates :
          LET r == populate_database(St, FALSE, dir)
          IN /\ SetStore(r.st)
             /\ ret' = r.ret
    /\ call' = At("input")
    /\ UNCHANGED <<api_key, prev>>

\* rag_system.query(query) and the display of its result; an exception is
\* printed and the loop goes on
RunQuery ==
    /\ call.op = "interactive" /\ call.at = "read_query"
    /\ \E env \in QueryEnvs(St) :
          LET r == query(St, api_key, call.query, DefaultK, env)
          IN /\ SetStore(r.st)
             /\ ret' = r.ret
    /\ call' = At("input")
    /\ UNCHANGED <<api_key, prev>>

\* KeyboardInterrupt, raised where main stands: except KeyboardInterrupt: break
Interrupt ==
    /\ InLoop
    /\ call' = At("done") @@ [by |-> "interrupt", from |-> call.at]
    /\ UNCHANGED <<api_key, exists, disk, vectorstore, ret, prev>>

NextInteractive ==
    \/ Start
    \/ ReadInput
    \/ ResetClear
    \/ ResetBuild
    \/ RunQuery
    \/ Interrupt

SpecInteractive == Init /\ [][NextInteractive]_vars

----------------------------------------------------------------------------
(* C13 *)

\* Where main stands between reading input and processing it
SafeBoundary == {"input", "read_reset", "read_query"}

\* C13: in the interactive loop a keyboard interrupt terminates the loop only
\* at the boundary between reading input and processing it: the loop never
\* exits with a reset half done (store cleared but not rebuilt).
C13_InterruptOnlyAtBoundary ==
    (/\ call.op = "interactive"
     /\ call.at = "done"
     /\ call.by = "interrupt")
    => call.from \in SafeBoundary

====
